---- MODULE Spec2Model ----
(***************************************************************************)
(* Model of control/matlab.py: the MATLAB-style wrappers ss, tf, ss2tf,    *)
(* tf2ss, bode, margin, dcgain, step, impulse, initial and lsim.           *)
(*                                                                         *)
(* A Python object is a record [cls, v, items]: its class, its numeric     *)
(* content (a rational <<n, d>> for a number) and its component objects.   *)
(* Every wrapper is an operator from its argument list (and the response   *)
(* of the library routine it delegates to) to the list of routines it      *)
(* invoked and its outcome (a returned value or a raised exception).       *)
(***************************************************************************)
EXTENDS Integers, Sequences, FiniteSets, TLC

VARIABLES pc, fn, args, keywords, env, calls, outcome, module, history

vars == <<pc, fn, args, keywords, env, calls, outcome, module, history>>

(***************************************************************************)
(* Bounds                                                                  *)
(***************************************************************************)
MaxArgs == 5          \* longest argument list of ss, tf, ss2tf, tf2ss, margin, dcgain
MaxBodeArgs == 4      \* longest argument list of bode
MaxNum == 2           \* numeric arguments range over -1 .. MaxNum
MaxShortArgs == 3     \* longest argument list of rss, drss, pole, zero, evalfr, freqresp, ngrid, rlocus
MaxCalls == 2         \* calls made one after the other

(***************************************************************************)
(* Python values                                                           *)
(***************************************************************************)
Obj(c, v, i) == [cls |-> c, v |-> v, items |-> i]

NoneObj == Obj("NoneType", <<>>, <<>>)

Abs(x) == IF x < 0 THEN -x ELSE x

RECURSIVE Gcd(_, _)
Gcd(a, b) == IF b = 0 THEN a ELSE Gcd(b, a % b)

\* the rational n/d in lowest terms with a positive denominator
Rat(n, d) ==
    LET g == Gcd(Abs(n), Abs(d))
        s == IF d < 0 THEN -1 ELSE 1
    IN  <<(s * n) \div g, (s * d) \div g>>

Num(x) == Obj("float", <<x, 1>>, <<>>)

Str(i) == Obj("str", <<i>>, <<>>)

List(xs) == Obj("list", <<>>, xs)

NdArray(i) == Obj("ndarray", <<i>>, <<>>)

Tuple(xs) == Obj("tuple", <<>>, xs)

\* StateSpace(A, B, C, D): the object keeps its four matrices
StateSpace(A, B, C, D) == Obj("StateSpace", <<>>, <<A, B, C, D>>)

\* TransferFunction(num, den): the object keeps numerator and denominator
TransferFunction(num, den) == Obj("TransferFunction", <<>>, <<num, den>>)

\* an exception raised inside a library routine
LibraryError == Obj("Exception", <<>>, <<>>)

isinstance(o, c) == o.cls = c

\* ctrlutil.issys: the object is an Lti system
issys(o) == o.cls \in {"StateSpace", "TransferFunction"}

\* getattr(o, '__iter__', False): str has no __iter__ in Python 2
HasIter(o) == o.cls \in {"list", "ndarray", "tuple"}

(***************************************************************************)
(* Calls and outcomes                                                      *)
(***************************************************************************)
NoKeywords == {}

Call(name, as, kw) == [fn |-> name, args |-> as, kw |-> kw]

Return(value, cs) ==
    [outcome |-> [kind |-> "return", exc |-> "", value |-> value], calls |-> cs]

Raise(exc, cs) ==
    [outcome |-> [kind |-> "raise", exc |-> exc, value |-> NoneObj], calls |-> cs]

\* a library routine is invoked and answers r: a value, or an exception
\* that propagates through the wrapper
Delegate(name, as, kw, r, cs) ==
    IF r = LibraryError
    THEN Raise("LibraryError", Append(cs, Call(name, as, kw)))
    ELSE Return(r, Append(cs, Call(name, as, kw)))

\* the result of a wrapper called from another wrapper, after the calls cs
After(cs, res) == [outcome |-> res.outcome, calls |-> cs \o res.calls]

(***************************************************************************)
(* ss, tf, ss2tf, tf2ss                                                    *)
(***************************************************************************)
tf2ss(a, r) ==
    IF Len(a) = 2
    THEN Delegate("_convertToStateSpace", <<TransferFunction(a[1], a[2])>>, NoKeywords, r,
                  <<Call("TransferFunction", <<a[1], a[2]>>, NoKeywords)>>)
    ELSE IF Len(a) = 1
    THEN IF ~isinstance(a[1], "TransferFunction")
         THEN Raise("TypeError", <<>>)
         ELSE Delegate("_convertToStateSpace", <<a[1]>>, NoKeywords, r, <<>>)
    ELSE Raise("ValueError", <<>>)

\* ss2tf accepting every Lti system in its one-argument form
ss2tf_AnyLti(a, r) ==
    IF Len(a) = 4
    THEN Delegate("_convertToTransferFunction", <<StateSpace(a[1], a[2], a[3], a[4])>>,
                  NoKeywords, r,
                  <<Call("StateSpace", <<a[1], a[2], a[3], a[4]>>, NoKeywords)>>)
    ELSE IF Len(a) = 1
    THEN IF issys(a[1])
         THEN Delegate("_convertToTransferFunction", <<a[1]>>, NoKeywords, r, <<>>)
         ELSE Raise("TypeError", <<>>)
    ELSE Raise("ValueError", <<>>)

ss2tf(a, r) ==
    IF Len(a) = 4
    THEN Delegate("_convertToTransferFunction", <<StateSpace(a[1], a[2], a[3], a[4])>>,
                  NoKeywords, r,
                  <<Call("StateSpace", <<a[1], a[2], a[3], a[4]>>, NoKeywords)>>)
    ELSE IF Len(a) = 1
    THEN IF isinstance(a[1], "StateSpace")
         THEN Delegate("_convertToTransferFunction", <<a[1]>>, NoKeywords, r, <<>>)
         ELSE Raise("TypeError", <<>>)
    ELSE Raise("ValueError", <<>>)

\* ss testing its arity with >= in place of ==
ss_AtLeast4(a, r) ==
    IF Len(a) >= 4
    THEN Return(StateSpace(a[1], a[2], a[3], a[4]),
                <<Call("StateSpace", <<a[1], a[2], a[3], a[4]>>, NoKeywords)>>)
    ELSE IF Len(a) = 1
    THEN IF isinstance(a[1], "StateSpace")
         THEN Return(a[1], <<Call("deepcopy", <<a[1]>>, NoKeywords)>>)
         ELSE IF isinstance(a[1], "TransferFunction")
         THEN After(<<Call("tf2ss", <<a[1]>>, NoKeywords)>>, tf2ss(<<a[1]>>, r))
         ELSE Raise("TypeError", <<>>)
    ELSE Raise("ValueError", <<>>)

\* ss copying every system it is given, a TransferFunction included
ss_CopyAny(a, r) ==
    IF Len(a) = 4
    THEN Return(StateSpace(a[1], a[2], a[3], a[4]),
                <<Call("StateSpace", <<a[1], a[2], a[3], a[4]>>, NoKeywords)>>)
    ELSE IF Len(a) = 1
    THEN IF issys(a[1])
         THEN Return(a[1], <<Call("deepcopy", <<a[1]>>, NoKeywords)>>)
         ELSE Raise("TypeError", <<>>)
    ELSE Raise("ValueError", <<>>)

ss(a, r) ==
    IF Len(a) = 4
    THEN Return(StateSpace(a[1], a[2], a[3], a[4]),
                <<Call("StateSpace", <<a[1], a[2], a[3], a[4]>>, NoKeywords)>>)
    ELSE IF Len(a) = 1
    THEN IF isinstance(a[1], "StateSpace")
         THEN Return(a[1], <<Call("deepcopy", <<a[1]>>, NoKeywords)>>)
         ELSE IF isinstance(a[1], "TransferFunction")
         THEN After(<<Call("tf2ss", <<a[1]>>, NoKeywords)>>, tf2ss(<<a[1]>>, r))
         ELSE Raise("TypeError", <<>>)
    ELSE Raise("ValueError", <<>>)

\* tf without the branch for a TransferFunction argument
tf_NoCopyBranch(a, r) ==
    IF Len(a) = 2
    THEN Return(TransferFunction(a[1], a[2]),
                <<Call("TransferFunction", <<a[1], a[2]>>, NoKeywords)>>)
    ELSE IF Len(a) = 1
    THEN IF isinstance(a[1], "StateSpace")
         THEN After(<<Call("ss2tf", <<a[1]>>, NoKeywords)>>, ss2tf(<<a[1]>>, r))
         ELSE Raise("TypeError", <<>>)
    ELSE Raise("ValueError", <<>>)

tf(a, r) ==
    IF Len(a) = 2
    THEN Return(TransferFunction(a[1], a[2]),
                <<Call("TransferFunction", <<a[1], a[2]>>, NoKeywords)>>)
    ELSE IF Len(a) = 1
    THEN IF isinstance(a[1], "StateSpace")
         THEN After(<<Call("ss2tf", <<a[1]>>, NoKeywords)>>, ss2tf(<<a[1]>>, r))
         ELSE IF isinstance(a[1], "TransferFunction")
         THEN Return(a[1], <<Call("deepcopy", <<a[1]>>, NoKeywords)>>)
         ELSE Raise("TypeError", <<>>)
    ELSE Raise("ValueError", <<>>)

(***************************************************************************)
(* margin                                                                  *)
(***************************************************************************)
\* the first four elements, element 2 kept
MarginSelect_First4(m) == <<m[1], m[2], m[3], m[4]>>

\* margins[0], margins[1], margins[3], margins[4] (Python indexes from 0)
MarginSelect(m) == <<m[1], m[2], m[4], m[5]>>

\* margin accepting every arity from 1 to 3
margin_Range(a, r) ==
    LET margins == IF Len(a) = 1
                   THEN Delegate("freqplot.margin", <<a[1]>>, NoKeywords, r, <<>>)
                   ELSE Delegate("freqplot.margin", <<Tuple(a)>>, NoKeywords, r, <<>>)
    IN  IF Len(a) < 1 \/ Len(a) > 3
        THEN Raise("ValueError", <<>>)
        ELSE IF margins.outcome.kind = "raise"
        THEN margins
        ELSE Return(Tuple(MarginSelect(margins.outcome.value.items)), margins.calls)

margin(a, r) ==
    LET margins == IF Len(a) = 1
                   THEN Delegate("freqplot.margin", <<a[1]>>, NoKeywords, r, <<>>)
                   ELSE Delegate("freqplot.margin", <<Tuple(a)>>, NoKeywords, r, <<>>)
    IN  IF Len(a) \notin {1, 3}
        THEN Raise("ValueError", <<>>)
        ELSE IF margins.outcome.kind = "raise"
        THEN margins
        ELSE Return(Tuple(MarginSelect(margins.outcome.value.items)), margins.calls)

(***************************************************************************)
(* dcgain                                                                  *)
(***************************************************************************)
RatMul(x, y) == Rat(x[1] * y[1], x[2] * y[2])

RatSub(x, y) == Rat(x[1] * y[2] - y[1] * x[2], x[2] * y[2])

\* A.I for a 1x1 matrix A # 0
RatInv(x) == Rat(x[2], x[1])

Singular(x) == x[1] = 0

Matrix(x) == Obj("matrix", x, <<>>)

\* the sign of the second term flipped: D + C * A.I * B
Gain_Plus(sys) ==
    LET A == sys.items[1].v
        B == sys.items[2].v
        C == sys.items[3].v
        D == sys.items[4].v
    IN  RatSub(D, RatMul(RatMul(RatSub(<<0, 1>>, C), RatInv(A)), B))

\* gain = sys.D - sys.C * sys.A.I * sys.B
Gain(sys) ==
    LET A == sys.items[1].v
        B == sys.items[2].v
        C == sys.items[3].v
        D == sys.items[4].v
    IN  RatSub(D, RatMul(RatMul(C, RatInv(A)), B))

\* zpk2ss answers the four matrices of a realization
zpk2ssAnswer(r) == IF r = LibraryError THEN r ELSE Tuple(r.items)

dcgain(a, r) ==
    LET zpk  == Delegate("zpk2ss", a, NoKeywords, zpk2ssAnswer(r), <<>>)
        ABCD == zpk.outcome.value.items
        conv == IF Len(a) = 4
                THEN After(<<Call("ss", a, NoKeywords)>>, ss(a, r))
                ELSE IF Len(a) = 3
                THEN IF zpk.outcome.kind = "raise"
                     THEN zpk
                     ELSE After(Append(zpk.calls, Call("ss", ABCD, NoKeywords)),
                                ss(ABCD, r))
                ELSE IF Len(a) = 2
                THEN After(<<Call("tf2ss", a, NoKeywords)>>, tf2ss(a, r))
                ELSE After(<<Call("ss", a, NoKeywords)>>, ss(a, r))
        sys  == conv.outcome.value
    IN  IF Len(a) \notin {1, 2, 3, 4}
        THEN Raise("ValueError", <<>>)
        ELSE IF conv.outcome.kind = "raise"
        THEN conv
        ELSE IF Singular(sys.items[1].v)
        THEN Raise("LinAlgError", conv.calls)
        ELSE Return(Matrix(Gain(sys)), conv.calls)

(***************************************************************************)
(* bode                                                                    *)
(***************************************************************************)
\* the state of bode's argument loop: i is the next position (from 1),
\* error is set by the raise inside the loop
BodeStart == [i |-> 1, syslist |-> <<>>, plotstyle |-> <<>>, omega |-> NoneObj,
              error |-> FALSE]

RECURSIVE BodeLoop(_, _)
BodeLoop(a, st) ==
    IF st.i > Len(a)
    THEN st
    ELSE IF issys(a[st.i])
    THEN LET j     == st.i + 1
             style == j <= Len(a) /\ isinstance(a[j], "str")
         IN  BodeLoop(a, [st EXCEPT !.syslist = Append(@, a[st.i]),
                                    !.plotstyle = IF style THEN Append(@, a[j]) ELSE @,
                                    !.i = IF style THEN j + 1 ELSE j])
    ELSE IF a[st.i].cls \in {"list", "ndarray"}
    THEN [st EXCEPT !.omega = a[st.i], !.i = st.i + 1]
    ELSE [st EXCEPT !.error = TRUE]

StyleWarning == Str(0)

\* bode taking only a list, not every iterable, as the python-control format
bode_ListOnly(a, kw, r) ==
    LET st == BodeLoop(a, BodeStart)
        cs == IF st.plotstyle # <<>>
              THEN <<Call("print", <<StyleWarning>>, NoKeywords)>>
              ELSE <<>>
    IN  IF Len(a) = 0
        THEN Raise("IndexError", <<>>)
        ELSE IF isinstance(a[1], "list")
        THEN Delegate("freqplot.bode", a, kw, r, <<>>)
        ELSE IF st.error
        THEN Raise("ControlArgument", <<>>)
        ELSE IF st.i <= Len(a)
        THEN Raise("ControlArgument", <<>>)
        ELSE IF st.plotstyle # <<>> /\ Len(st.syslist) # Len(st.plotstyle)
        THEN Raise("ControlArgument", <<>>)
        ELSE Delegate("freqplot.bode", <<List(st.syslist), st.omega>>, kw, r, cs)

\* bode requiring one plot style per system even when none is given
bode_StylesRequired(a, kw, r) ==
    LET st == BodeLoop(a, BodeStart)
        cs == IF st.plotstyle # <<>>
              THEN <<Call("print", <<StyleWarning>>, NoKeywords)>>
              ELSE <<>>
    IN  IF Len(a) = 0
        THEN Raise("IndexError", <<>>)
        ELSE IF HasIter(a[1])
        THEN Delegate("freqplot.bode", a, kw, r, <<>>)
        ELSE IF st.error
        THEN Raise("ControlArgument", <<>>)
        ELSE IF st.i <= Len(a)
        THEN Raise("ControlArgument", <<>>)
        ELSE IF Len(st.syslist) # Len(st.plotstyle)
        THEN Raise("ControlArgument", <<>>)
        ELSE Delegate("freqplot.bode", <<List(st.syslist), st.omega>>, kw, r, cs)

bode(a, kw, r) ==
    LET st == BodeLoop(a, BodeStart)
        cs == IF st.plotstyle # <<>>
              THEN <<Call("print", <<StyleWarning>>, NoKeywords)>>
              ELSE <<>>
    IN  IF Len(a) = 0
        THEN Raise("IndexError", <<>>)
        ELSE IF HasIter(a[1])
        THEN Delegate("freqplot.bode", a, kw, r, <<>>)
        ELSE IF st.error
        THEN Raise("ControlArgument", <<>>)
        ELSE IF st.i <= Len(a)
        THEN Raise("ControlArgument", <<>>)
        ELSE IF st.plotstyle # <<>> /\ Len(st.syslist) # Len(st.plotstyle)
        THEN Raise("ControlArgument", <<>>)
        ELSE Delegate("freqplot.bode", <<List(st.syslist), st.omega>>, kw, r, cs)

(***************************************************************************)
(* step, impulse, initial, lsim                                            *)
(***************************************************************************)
Keys(kw) == {p[1] : p \in kw}

TransposeTrue == {<<"transpose", "True">>}

\* the formal parameters after binding the positional arguments p:
\* a parameter without an argument takes its default d[i]
Bind(p, d) == [i \in 1 .. Len(d) |-> IF i <= Len(p) THEN p[i] ELSE d[i]]

\* (sys, T=None, X0=0., input=0, output=0)
ResponseDefaults == <<NoneObj, NoneObj, Num(0), Num(0), Num(0)>>

\* (sys, U=0., T=None, X0=0.)
LsimDefaults == <<NoneObj, Num(0), NoneObj, Num(0)>>

\* f(..., transpose = True, **keywords): a keyword given twice is a
\* TypeError raised at the call, before f runs
TransposedCall(name, as, kw, r) ==
    IF "transpose" \in Keys(kw)
    THEN Raise("TypeError", <<>>)
    ELSE Delegate(name, as, kw \cup TransposeTrue, r, <<>>)

\* T, yout = timeresp.<name>(sys, T, X0, input, output, transpose = True,
\* **keywords); return T, yout
Response(name, p, kw, r) ==
    LET b   == Bind(p, ResponseDefaults)
        res == TransposedCall(name, b, kw, r)
    IN  IF Len(p) = 0 \/ Len(p) > Len(ResponseDefaults)
        THEN Raise("TypeError", <<>>)
        ELSE IF res.outcome.kind = "raise"
        THEN res
        ELSE Return(Tuple(<<res.outcome.value.items[1], res.outcome.value.items[2]>>),
                    res.calls)

step(p, kw, r) == Response("timeresp.StepResponse", p, kw, r)

impulse(p, kw, r) == Response("timeresp.ImpulseResponse", p, kw, r)

initial(p, kw, r) == Response("timeresp.InitialResponse", p, kw, r)

\* the parameters handed on in the order of lsim's own signature
LsimOrder_Unchanged(b) == <<b[1], b[2], b[3], b[4]>>

\* ForcedResponse(sys, T, U, X0, ...) from lsim(sys, U, T, X0)
LsimOrder(b) == <<b[1], b[3], b[2], b[4]>>

lsim(p, kw, r) ==
    LET b   == Bind(p, LsimDefaults)
        res == TransposedCall("timeresp.ForcedResponse", LsimOrder(b), kw, r)
    IN  IF Len(p) = 0 \/ Len(p) > Len(LsimDefaults)
        THEN Raise("TypeError", <<>>)
        ELSE IF res.outcome.kind = "raise"
        THEN res
        ELSE Return(Tuple(<<res.outcome.value.items[1], res.outcome.value.items[2],
                            res.outcome.value.items[3]>>),
                    res.calls)

(***************************************************************************)
(* rss, drss, pole, zero, evalfr, freqresp, ngrid, rlocus                  *)
(***************************************************************************)
Continuous == Str(2)

Discrete == Str(3)

\* (states=1, inputs=1, outputs=1)
RssDefaults == <<Num(1), Num(1), Num(1)>>

Generate(p, type, r) ==
    IF Len(p) > Len(RssDefaults)
    THEN Raise("TypeError", <<>>)
    ELSE Delegate("_rss_generate", Bind(p, RssDefaults) \o <<type>>, NoKeywords, r, <<>>)

rss(p, r) == Generate(p, Continuous, r)

drss(p, r) == Generate(p, Discrete, r)

\* sys.<method>(...): the method of the system object given as first
\* argument; an object that is no system has no such attribute
Method(name, n, p, r) ==
    IF Len(p) # n
    THEN Raise("TypeError", <<>>)
    ELSE IF ~issys(p[1])
    THEN Raise("AttributeError", <<>>)
    ELSE Delegate(name, p, NoKeywords, r, <<>>)

pole(p, r) == Method("sys.pole", 1, p, r)

zero(p, r) == Method("sys.zero", 1, p, r)

evalfr(p, r) == Method("sys.evalfr", 2, p, r)

freqresp(p, r) == Method("sys.freqresp", 2, p, r)

\* nichols_grid is imported into a local name; ngrid returns None
ngrid(p, r) ==
    LET res == Delegate("nichols.nichols_grid", <<>>, NoKeywords, r, <<>>)
    IN  IF Len(p) # 0
        THEN Raise("TypeError", <<>>)
        ELSE IF res.outcome.kind = "raise"
        THEN res
        ELSE Return(NoneObj, res.calls)

\* (sys, klist = None)
RlocusDefaults == <<NoneObj, NoneObj>>

\* logspace(-3, 3)
DefaultGains == NdArray(0)

\* RootLocus is imported into a local name; klist and rlist are locals
rlocus(p, kw, r) ==
    LET b     == Bind(p, RlocusDefaults)
        dflt  == b[2] = NoneObj
        klist == IF dflt THEN DefaultGains ELSE b[2]
        cs    == IF dflt
                 THEN <<Call("logspace", <<Num(-3), Num(3)>>, NoKeywords)>>
                 ELSE <<>>
        res   == Delegate("rlocus.RootLocus", <<b[1], klist>>, kw, r, cs)
    IN  IF Len(p) = 0 \/ Len(p) > Len(RlocusDefaults)
        THEN Raise("TypeError", <<>>)
        ELSE IF res.outcome.kind = "raise"
        THEN res
        ELSE Return(Tuple(<<res.outcome.value, klist>>), res.calls)

(***************************************************************************)
(* A call of a module function                                             *)
(***************************************************************************)
\* the module-level names bound by calls of the wrappers, as a set of
\* <<name, value>>: none when the module has been imported
ModuleAtImport == {}

\* the body of the function called, by name
Body(name, a, kw, r) ==
    CASE name = "ss"       -> ss(a, r)
      [] name = "tf"       -> tf(a, r)
      [] name = "ss2tf"    -> ss2tf(a, r)
      [] name = "tf2ss"    -> tf2ss(a, r)
      [] name = "rss"      -> rss(a, r)
      [] name = "drss"     -> drss(a, r)
      [] name = "pole"     -> pole(a, r)
      [] name = "zero"     -> zero(a, r)
      [] name = "evalfr"   -> evalfr(a, r)
      [] name = "freqresp" -> freqresp(a, r)
      [] name = "bode"     -> bode(a, kw, r)
      [] name = "ngrid"    -> ngrid(a, r)
      [] name = "rlocus"   -> rlocus(a, kw, r)
      [] name = "margin"   -> margin(a, r)
      [] name = "dcgain"   -> dcgain(a, r)
      [] name = "step"     -> step(a, kw, r)
      [] name = "impulse"  -> impulse(a, kw, r)
      [] name = "initial"  -> initial(a, kw, r)
      [] name = "lsim"     -> lsim(a, kw, r)

\* bode keeping its syslist in a module-level list that is never emptied
Invoke_GlobalSyslist(name, a, kw, r, m) ==
    LET kept == IF m = {} THEN <<>> ELSE (CHOOSE p \in m : p[1] = "syslist")[2].items
        res  == IF name = "bode" /\ Len(a) > 0 /\ ~HasIter(a[1])
                THEN bode(kept \o a, kw, r)
                ELSE Body(name, a, kw, r)
    IN  [outcome |-> res.outcome, calls |-> res.calls,
         module |-> IF name = "bode" /\ Len(a) > 0 /\ ~HasIter(a[1])
                    THEN {<<"syslist", List(BodeLoop(kept \o a, BodeStart).syslist)>>}
                    ELSE m]

\* a call runs the body of the function in a frame of its own: every name
\* the body assigns is local to the call (no function declares a global),
\* and the module-level names m are what they were before the call
Invoke(name, a, kw, r, m) ==
    LET res == Body(name, a, kw, r)
    IN  [outcome |-> res.outcome, calls |-> res.calls, module |-> m]

(***************************************************************************)
(* Inputs                                                                  *)
(***************************************************************************)
Nums == {Num(x) : x \in -1 .. MaxNum}

SSObjs == {StateSpace(Num(2), Num(1), Num(1), Num(0)),
           StateSpace(Num(-1), Num(2), Num(1), Num(1)),
           StateSpace(Num(0), Num(1), Num(1), Num(0))}

TFObjs == {TransferFunction(Num(1), Num(2)), TransferFunction(Num(2), Num(1))}

FreqLists == {List(<<Num(1), Num(2)>>), NdArray(1)}

\* what a caller may pass as the single argument sys
Objects == SSObjs \cup TFObjs \cup FreqLists \cup {Num(1), Str(1), NoneObj}

SeqsOf(S, n) == [1 .. n -> S]

\* argument lists of the arity-dispatched wrappers: any object alone,
\* numeric data (matrices, coefficient vectors) otherwise
ArgLists ==
    {<<>>} \cup {<<o>> : o \in Objects}
           \cup UNION {SeqsOf(Nums, n) : n \in 2 .. MaxArgs}

\* answers of the conversion routines
SSResponses == SSObjs \cup {LibraryError}

TFResponses == TFObjs \cup {LibraryError}

Floats(xs) == [i \in 1 .. Len(xs) |-> Num(xs[i])]

\* argument lists of bode: systems, plot styles, frequency lists, a list
\* of systems, and a number as an argument bode does not recognise
BodeObjs == {StateSpace(Num(2), Num(1), Num(1), Num(0)),
             TransferFunction(Num(1), Num(2)),
             Str(1), Num(1),
             List(<<TransferFunction(Num(1), Num(2)),
                    StateSpace(Num(2), Num(1), Num(1), Num(0))>>)} \cup FreqLists

BodeArgLists == UNION {SeqsOf(BodeObjs, n) : n \in 0 .. MaxBodeArgs}

\* keyword dictionaries, as sets of <<key, value>>
KeywordSets == {{}, {<<"dB", "True">>}, {<<"dB", "True">>, <<"Plot", "False">>}}

\* answers of freqplot.bode
BodeResponses == {Tuple(Floats(<<31, 32, 33>>)), LibraryError}

\* positional arguments of the simulation wrappers: a system, then data
SimArgLists ==
    {<<>>} \cup {<<sys>> \o rest :
                    sys \in {StateSpace(Num(2), Num(1), Num(1), Num(0))},
                    rest \in UNION {SeqsOf(Nums, n) : n \in 0 .. MaxArgs - 1}}

SimKeywordSets == KeywordSets \cup {{<<"transpose", "False">>},
                                    {<<"dB", "True">>, <<"transpose", "True">>}}

\* answers of StepResponse, ImpulseResponse and InitialResponse: (T, yout)
ResponseAnswers == {Tuple(Floats(<<41, 42>>)), LibraryError}

\* answers of ForcedResponse: (T, yout, xout)
ForcedAnswers == {Tuple(Floats(<<51, 52, 53>>)), LibraryError}

\* argument lists of rss, drss, pole, zero, evalfr, freqresp, ngrid, rlocus
ShortObjs == {StateSpace(Num(2), Num(1), Num(1), Num(0)), Num(1), NoneObj,
              List(<<Num(1), Num(2)>>)}

ShortArgLists == UNION {SeqsOf(ShortObjs, n) : n \in 0 .. MaxShortArgs}

\* answers of sys.pole, sys.zero, sys.evalfr, sys.freqresp and RootLocus
ArrayResponses == {NdArray(2), LibraryError}

\* answers of freqplot.margin: gm, pm, sm, wg, wp and possibly more
MarginResponses == {Tuple(Floats(<<11, 12, 13, 14, 15>>)),
                    Tuple(Floats(<<21, 22, 23, 24, 25, 26>>)),
                    LibraryError}

(***************************************************************************)
(* The caller                                                              *)
(***************************************************************************)
Init ==
    /\ pc = "ready"
    /\ fn = "none"
    /\ args = <<>>
    /\ keywords = NoKeywords
    /\ env = NoneObj
    /\ calls = <<>>
    /\ outcome = [kind |-> "none", exc |-> "", value |-> NoneObj]
    /\ module = ModuleAtImport
    /\ history = <<>>

\* the caller may make another call
Ready == pc = "ready" /\ Len(history) < MaxCalls

Finish(name, a, kw, r, res) ==
    /\ pc' = "done"
    /\ fn' = name
    /\ args' = a
    /\ keywords' = kw
    /\ env' = r
    /\ calls' = res.calls
    /\ outcome' = res.outcome
    /\ module' = res.module
    /\ history' = history

Call_ss ==
    /\ Ready
    /\ \E a \in ArgLists, r \in SSResponses :
          Finish("ss", a, NoKeywords, r, Invoke("ss", a, NoKeywords, r, module))

Call_tf ==
    /\ Ready
    /\ \E a \in ArgLists, r \in TFResponses :
          Finish("tf", a, NoKeywords, r, Invoke("tf", a, NoKeywords, r, module))

Call_ss2tf ==
    /\ Ready
    /\ \E a \in ArgLists, r \in TFResponses :
          Finish("ss2tf", a, NoKeywords, r, Invoke("ss2tf", a, NoKeywords, r, module))

Call_tf2ss ==
    /\ Ready
    /\ \E a \in ArgLists, r \in SSResponses :
          Finish("tf2ss", a, NoKeywords, r, Invoke("tf2ss", a, NoKeywords, r, module))

Call_margin ==
    /\ Ready
    /\ \E a \in ArgLists, r \in MarginResponses :
          Finish("margin", a, NoKeywords, r, Invoke("margin", a, NoKeywords, r, module))

Call_dcgain ==
    /\ Ready
    /\ \E a \in ArgLists, r \in SSResponses :
          Finish("dcgain", a, NoKeywords, r, Invoke("dcgain", a, NoKeywords, r, module))

Call_bode ==
    /\ Ready
    /\ \E a \in BodeArgLists, kw \in KeywordSets, r \in BodeResponses :
          Finish("bode", a, kw, r, Invoke("bode", a, kw, r, module))

Call_step ==
    /\ Ready
    /\ \E p \in SimArgLists, kw \in SimKeywordSets, r \in ResponseAnswers :
          Finish("step", p, kw, r, Invoke("step", p, kw, r, module))

Call_impulse ==
    /\ Ready
    /\ \E p \in SimArgLists, kw \in SimKeywordSets, r \in ResponseAnswers :
          Finish("impulse", p, kw, r, Invoke("impulse", p, kw, r, module))

Call_initial ==
    /\ Ready
    /\ \E p \in SimArgLists, kw \in SimKeywordSets, r \in ResponseAnswers :
          Finish("initial", p, kw, r, Invoke("initial", p, kw, r, module))

Call_lsim ==
    /\ Ready
    /\ \E p \in SimArgLists, kw \in SimKeywordSets, r \in ForcedAnswers :
          Finish("lsim", p, kw, r, Invoke("lsim", p, kw, r, module))

Call_rss ==
    /\ Ready
    /\ \E a \in ShortArgLists, r \in SSResponses :
          Finish("rss", a, NoKeywords, r, Invoke("rss", a, NoKeywords, r, module))

Call_drss ==
    /\ Ready
    /\ \E a \in ShortArgLists, r \in SSResponses :
          Finish("drss", a, NoKeywords, r, Invoke("drss", a, NoKeywords, r, module))

Call_pole ==
    /\ Ready
    /\ \E a \in ShortArgLists, r \in ArrayResponses :
          Finish("pole", a, NoKeywords, r, Invoke("pole", a, NoKeywords, r, module))

Call_zero ==
    /\ Ready
    /\ \E a \in ShortArgLists, r \in ArrayResponses :
          Finish("zero", a, NoKeywords, r, Invoke("zero", a, NoKeywords, r, module))

Call_evalfr ==
    /\ Ready
    /\ \E a \in ShortArgLists, r \in ArrayResponses :
          Finish("evalfr", a, NoKeywords, r, Invoke("evalfr", a, NoKeywords, r, module))

Call_freqresp ==
    /\ Ready
    /\ \E a \in ShortArgLists, r \in ArrayResponses :
          Finish("freqresp", a, NoKeywords, r, Invoke("freqresp", a, NoKeywords, r, module))

Call_ngrid ==
    /\ Ready
    /\ \E a \in ShortArgLists, r \in {NoneObj, LibraryError} :
          Finish("ngrid", a, NoKeywords, r, Invoke("ngrid", a, NoKeywords, r, module))

Call_rlocus ==
    /\ Ready
    /\ \E a \in ShortArgLists, kw \in KeywordSets, r \in ArrayResponses :
          Finish("rlocus", a, kw, r, Invoke("rlocus", a, kw, r, module))

\* the caller takes the result and is ready for the next call
NextCall ==
    /\ pc = "done"
    /\ pc' = "ready"
    /\ fn' = "none"
    /\ args' = <<>>
    /\ keywords' = NoKeywords
    /\ env' = NoneObj
    /\ calls' = <<>>
    /\ outcome' = [kind |-> "none", exc |-> "", value |-> NoneObj]
    /\ module' = module
    /\ history' = Append(history, outcome.kind)

Next ==
    \/ Call_ss
    \/ Call_tf
    \/ Call_ss2tf
    \/ Call_tf2ss
    \/ Call_margin
    \/ Call_dcgain
    \/ Call_bode
    \/ Call_step
    \/ Call_impulse
    \/ Call_initial
    \/ Call_lsim
    \/ Call_rss
    \/ Call_drss
    \/ Call_pole
    \/ Call_zero
    \/ Call_evalfr
    \/ Call_freqresp
    \/ Call_ngrid
    \/ Call_rlocus
    \/ NextCall

Spec == Init /\ [][Next]_vars

(***************************************************************************)
(* Properties                                                              *)
(***************************************************************************)
Done(name) == pc = "done" /\ fn = name

Raised(exc) == outcome.kind = "raise" /\ outcome.exc = exc

Returned == outcome.kind = "return"

NothingInvoked == calls = <<>>

\* C1: ss, tf, ss2tf and tf2ss called with a number of arguments outside
\* their accepted set ({1, 4} for ss and ss2tf, {1, 2} for tf and tf2ss)
\* raise ValueError and invoke no constructor or conversion routine.
C1_BadArityValueError ==
    /\ (pc = "done" /\ fn \in {"ss", "ss2tf"} /\ Len(args) \notin {1, 4})
          => (Raised("ValueError") /\ NothingInvoked)
    /\ (pc = "done" /\ fn \in {"tf", "tf2ss"} /\ Len(args) \notin {1, 2})
          => (Raised("ValueError") /\ NothingInvoked)

C1_Witness == Done("ss") /\ Len(args) = MaxArgs /\ Raised("ValueError")

\* C2: ss(sys) and tf(sys) with one argument that is neither a StateSpace
\* nor a TransferFunction raise TypeError and perform no conversion or copy;
\* with a StateSpace or TransferFunction they do not raise TypeError.
C2_OneArgTypeError ==
    (pc = "done" /\ fn \in {"ss", "tf"} /\ Len(args) = 1)
       => IF args[1].cls \in {"StateSpace", "TransferFunction"}
          THEN ~Raised("TypeError")
          ELSE Raised("TypeError") /\ NothingInvoked

C2_Witness == Done("tf") /\ Len(args) = 1 /\ args[1] = Str(1) /\ Raised("TypeError")

\* C3: ss2tf(sys) raises TypeError for every sys that is not a StateSpace and
\* tf2ss(sys) for every sys that is not a TransferFunction, and the
\* conversion routine is not called.
C3_DirectedStrict ==
    /\ (Done("ss2tf") /\ Len(args) = 1 /\ args[1].cls # "StateSpace")
          => (Raised("TypeError") /\ NothingInvoked)
    /\ (Done("tf2ss") /\ Len(args) = 1 /\ args[1].cls # "TransferFunction")
          => (Raised("TypeError") /\ NothingInvoked)

C3_Witness ==
    Done("ss2tf") /\ Len(args) = 1 /\ args[1] \in TFObjs /\ Raised("TypeError")

\* C4: ss(t) gives the result of tf2ss(t) for a TransferFunction t and tf(s)
\* the result of ss2tf(s) for a StateSpace s; every successful call of ss
\* yields a StateSpace and every successful call of tf a TransferFunction.
C4_GenericAgreesWithDirected ==
    /\ (Done("ss") /\ Len(args) = 1 /\ args[1].cls = "TransferFunction")
          => /\ outcome = tf2ss(args, env).outcome
             /\ calls = <<Call("tf2ss", args, NoKeywords)>> \o tf2ss(args, env).calls
    /\ (Done("tf") /\ Len(args) = 1 /\ args[1].cls = "StateSpace")
          => /\ outcome = ss2tf(args, env).outcome
             /\ calls = <<Call("ss2tf", args, NoKeywords)>> \o ss2tf(args, env).calls
    /\ (Done("ss") /\ Returned) => outcome.value.cls = "StateSpace"
    /\ (Done("tf") /\ Returned) => outcome.value.cls = "TransferFunction"

C4_Witness ==
    /\ Done("ss") /\ Len(args) = 1 /\ args[1] \in TFObjs
    /\ Returned /\ outcome.value = env /\ env \in SSObjs

\* C5: margin called with a number of arguments other than 1 or 3, and dcgain
\* with a number other than 1, 2, 3 or 4, raise ValueError and invoke nothing.
C5_MarginDcgainArity ==
    /\ (Done("margin") /\ Len(args) \notin {1, 3})
          => (Raised("ValueError") /\ NothingInvoked)
    /\ (Done("dcgain") /\ Len(args) \notin {1, 2, 3, 4})
          => (Raised("ValueError") /\ NothingInvoked)

C5_Witness == Done("margin") /\ Len(args) = 2 /\ Raised("ValueError")

\* the state-space system dcgain works on, by the arity of the call
DcSystem ==
    IF Len(args) = 4 THEN StateSpace(args[1], args[2], args[3], args[4])
    ELSE IF Len(args) = 1 /\ args[1].cls = "StateSpace" THEN args[1]
    ELSE env

\* the routines dcgain goes through, by the arity of the call
DcRoute ==
    IF Len(args) = 4
    THEN <<Call("ss", args, NoKeywords), Call("StateSpace", args, NoKeywords)>>
    ELSE IF Len(args) = 3
    THEN IF env = LibraryError
         THEN <<Call("zpk2ss", args, NoKeywords)>>
         ELSE <<Call("zpk2ss", args, NoKeywords), Call("ss", env.items, NoKeywords),
                Call("StateSpace", env.items, NoKeywords)>>
    ELSE IF Len(args) = 2
    THEN <<Call("tf2ss", args, NoKeywords), Call("TransferFunction", args, NoKeywords),
           Call("_convertToStateSpace", <<TransferFunction(args[1], args[2])>>, NoKeywords)>>
    ELSE IF args[1].cls = "StateSpace"
    THEN <<Call("ss", args, NoKeywords), Call("deepcopy", args, NoKeywords)>>
    ELSE IF args[1].cls = "TransferFunction"
    THEN <<Call("ss", args, NoKeywords), Call("tf2ss", args, NoKeywords),
           Call("_convertToStateSpace", args, NoKeywords)>>
    ELSE <<Call("ss", args, NoKeywords)>>

\* g = D - C * A^-1 * B for integer A # 0, B, C, D, cross-multiplied
IsDcGain(g, sys) ==
    LET A == sys.items[1].v[1]
        B == sys.items[2].v[1]
        C == sys.items[3].v[1]
        D == sys.items[4].v[1]
    IN  /\ g.cls = "matrix"
        /\ g.v[2] > 0
        /\ g.v[1] * A = g.v[2] * (D * A - C * B)

\* C6: for every accepted arity dcgain converts its arguments to a
\* state-space system by the route of that arity and returns
\* D - C * A^-1 * B of that system's matrices; one argument that is neither
\* a StateSpace nor a TransferFunction fails with the TypeError of ss.
C6_DcgainRoutesAndGain ==
    (Done("dcgain") /\ Len(args) \in {1, 2, 3, 4})
       => /\ calls = DcRoute
          /\ IF Len(args) = 1 /\ ~issys(args[1])
             THEN Raised("TypeError")
             ELSE /\ Returned => IsDcGain(outcome.value, DcSystem)
                  /\ (DcSystem.cls = "StateSpace" /\ ~Singular(DcSystem.items[1].v))
                        => Returned

C6_Witness ==
    /\ Done("dcgain") /\ Len(args) = 3 /\ Returned
    /\ env = StateSpace(Num(-1), Num(2), Num(1), Num(1))
    /\ outcome.value = Matrix(<<3, 1>>)

\* C7: margin returns the four values found at positions 0, 1, 3 and 4 of
\* the sequence freqplot.margin returns; freqplot.margin receives the system
\* of a one-argument call, and the three values of a three-argument call as
\* a single tuple.
C7_MarginSelection ==
    (Done("margin") /\ Len(args) \in {1, 3})
       => /\ calls = <<Call("freqplot.margin",
                            IF Len(args) = 1 THEN args ELSE <<Tuple(args)>>,
                            NoKeywords)>>
          /\ env # LibraryError
                => /\ Returned
                   /\ outcome.value.cls = "tuple"
                   /\ Len(outcome.value.items) = 4
                   /\ \A k \in 1 .. 4 :
                         outcome.value.items[k] = env.items[<<1, 2, 4, 5>>[k]]

C7_Witness ==
    /\ Done("margin") /\ Len(args) = 3 /\ Returned
    /\ outcome.value = Tuple(Floats(<<21, 22, 24, 25>>))

IsStyle(o) == o.cls = "str"

IsFreq(o) == o.cls \in {"list", "ndarray"}

\* the arguments before the final frequency list, if there is one
BodeBody == IF IsFreq(args[Len(args)]) THEN SubSeq(args, 1, Len(args) - 1) ELSE args

\* one or more systems, each optionally followed by one plot style,
\* optionally followed by one final frequency list; styles absent or one
\* per system; first argument not iterable
MatlabForm ==
    /\ Len(args) >= 1
    /\ ~HasIter(args[1])
    /\ Len(BodeBody) >= 1
    /\ \A i \in 1 .. Len(BodeBody) :
          \/ issys(BodeBody[i])
          \/ IsStyle(BodeBody[i]) /\ i > 1 /\ issys(BodeBody[i - 1])
    /\ Len(SelectSeq(BodeBody, IsStyle)) \in {0, Len(SelectSeq(BodeBody, issys))}

IsBodeCall(c) == c.fn = "freqplot.bode"

\* C8: in MATLAB calling format with a well-formed argument list, bode
\* calls freqplot.bode exactly once, with the system arguments in their
\* original order as syslist, the frequency list (None when there is none)
\* as omega, and the caller's keyword arguments.
C8_BodeMatlabFormat ==
    (Done("bode") /\ MatlabForm)
       => /\ SelectSeq(calls, IsBodeCall) =
                <<Call("freqplot.bode",
                       <<List(SelectSeq(BodeBody, issys)),
                         IF IsFreq(args[Len(args)]) THEN args[Len(args)] ELSE NoneObj>>,
                       keywords)>>
          /\ ~Raised("ControlArgument")

C8_Witness ==
    /\ Done("bode") /\ Returned
    /\ args = <<TransferFunction(Num(1), Num(2)), Str(1),
                StateSpace(Num(2), Num(1), Num(1), Num(0)), Str(1)>>
    /\ keywords = {<<"dB", "True">>}

\* C9: when the first argument of bode is iterable, bode forwards all
\* positional and keyword arguments unchanged and in order to freqplot.bode
\* and returns its result, without parsing or validating them.
C9_BodePythonFormat ==
    (Done("bode") /\ Len(args) >= 1 /\ HasIter(args[1]))
       => /\ calls = <<Call("freqplot.bode", args, keywords)>>
          /\ IF env = LibraryError
             THEN Raised("LibraryError")
             ELSE Returned /\ outcome.value = env

C9_Witness ==
    /\ Done("bode") /\ Returned /\ Len(args) = 3
    /\ args[1] = NdArray(1) /\ args[2] = Num(1) /\ args[3] = Str(1)
    /\ keywords = {<<"dB", "True">>, <<"Plot", "False">>}

\* the timeresp routine behind each simulation wrapper
Routine(name) ==
    CASE name = "step"    -> "timeresp.StepResponse"
      [] name = "impulse" -> "timeresp.ImpulseResponse"
      [] name = "initial" -> "timeresp.InitialResponse"
      [] name = "lsim"    -> "timeresp.ForcedResponse"

\* parameter k of the call in progress: the k-th positional argument, or
\* the default dflt when the caller gave fewer than k
Param(k, dflt) == IF k <= Len(args) THEN args[k] ELSE dflt

\* the call each simulation wrapper is to make
SimCall ==
    IF fn = "lsim"
    THEN Call(Routine(fn),
              <<args[1], Param(3, NoneObj), Param(2, Num(0)), Param(4, Num(0))>>,
              keywords \cup {<<"transpose", "True">>})
    ELSE Call(Routine(fn),
              <<args[1], Param(2, NoneObj), Param(3, Num(0)), Param(4, Num(0)),
                Param(5, Num(0))>>,
              keywords \cup {<<"transpose", "True">>})

\* the value each simulation wrapper is to return
SimResult ==
    IF fn = "lsim"
    THEN Tuple(<<env.items[1], env.items[2], env.items[3]>>)
    ELSE Tuple(<<env.items[1], env.items[2]>>)

SimCalled ==
    /\ pc = "done"
    /\ \/ fn \in {"step", "impulse", "initial"} /\ Len(args) \in 1 .. 5
       \/ fn = "lsim" /\ Len(args) \in 1 .. 4

SimAsClaimed ==
    /\ calls = <<SimCall>>
    /\ env # LibraryError => (Returned /\ outcome.value = SimResult)

\* C10 as stated: step, impulse and initial call their timeresp routine with
\* (sys, T, X0, input, output) and transpose=True and return (T, yout); lsim
\* calls ForcedResponse with (sys, T, U, X0) and transpose=True and returns
\* (T, yout, xout); the caller's keywords are forwarded unchanged, whatever
\* they are.
C10_AsStated == SimCalled => SimAsClaimed

\* C10, amended: the above holds when the caller's keywords do not contain
\* 'transpose'; when they do, the wrapper raises TypeError and calls nothing.
C10_SimulationWrappers ==
    SimCalled
       => IF \E p \in keywords : p[1] = "transpose"
          THEN Raised("TypeError") /\ NothingInvoked
          ELSE SimAsClaimed

C10_Witness ==
    /\ Done("lsim") /\ Returned
    /\ args = <<StateSpace(Num(2), Num(1), Num(1), Num(0)), Num(1), Num(2)>>
    /\ keywords = {<<"dB", "True">>}
    /\ outcome.value = Tuple(Floats(<<51, 52, 53>>))

====
